---- MODULE Spec2Model ----
(***************************************************************************)
(* Model of the group-ordered job queue of src/src/Queue.js (class Queue,  *)
(* lines 11-367).  The store (Redis) executes every command and every Lua  *)
(* script atomically; a node (one Queue instance, one JavaScript event     *)
(* loop) runs each piece of code between two awaited store round trips as  *)
(* one atomic step.  An action of this module is therefore either one      *)
(* store command together with the pure code that follows it, or one       *)
(* continuation that reads or writes node-local state (processMap,         *)
(* pendingGroupConsumers, localTimers, timer handles).                     *)
(*                                                                         *)
(* The Lua scripts enqueue.lua, dequeue.lua and update_status.lua are read *)
(* by init() (Queue.js lines 55-57) but are not part of the source tree;   *)
(* their operators follow the contract of section 4.1 of the specification.*)
(***************************************************************************)
EXTENDS Integers, Sequences, FiniteSets, Bags, TLC

\* ------------------------------------------------------------------ bounds
MaxJobs == 2            \* add() calls made by producers
MaxFewJobs == 1         \* add() calls where every failure and outcome is explored
MaxProcessCalls == 1    \* process() calls made on one node
MaxN == 1               \* largest nConsumers a process() call registers

\* ------------------------------------------------------------------ universe
Nodes == {"n1", "n2"}
Queues == {"Q", "Q2"}
\* the queue the producers and consumers of all but one specification use
UsedQueues == {"Q"}
Groups == {"G"}
JobIds == 1 .. MaxJobs
\* Every non-pending startGroupConsumer call spawns at most one worker, at
\* once or later from the pending list.
MaxWorkers == (MaxJobs + MaxProcessCalls * Cardinality(Groups) * MaxN) * Cardinality(Nodes)
Wids == 1 .. MaxWorkers
NoJob == 0
NoWid == 0
Null == [owner |-> "null", shouldStop |-> FALSE, workerId |-> NoWid]
Statuses == {"pending", "active", "completed", "failed"}

VARIABLES
    \* the store
    nextJobId,              \* the enqueue script's job counter
    jobs,                   \* job records: status, group, queue
    groupList,              \* groupKey -> list of jobIds
    groupsSet,              \* queueKey -> set of groupKeys
    activeGroupConsumers,   \* hash: consumerKey -> info
    inbox,                  \* node -> QUEUE:NEWJOB messages not yet handled
    \* one node
    isReady,                \* node -> subscription confirmed
    processMap,             \* node -> queue -> nConsumers (0: not registered)
    pendingGroupConsumers,  \* node -> list of deferred admissions
    localTimers,            \* node -> set of consumerKeys with a timer handle
    timers,                 \* workerId -> state of its inactivity timers
    calls,                  \* bag of startGroupConsumer invocations in flight
    proc,                   \* node -> its running process() call
    workers,                \* workerId -> groupWorker task
    nextWid,                \* workerIds handed out so far
    \* producers and callbacks
    pub,                    \* job -> state of the publish step of its add()
    doneTask,               \* job -> argument of a done call whose update is in flight
    processCalls,           \* node -> process() calls made so far
    \* history
    handed,                 \* job -> times handed to a user callback
    enqOrder,               \* groupKey -> jobIds in the order enqueue appended
    deqReturned,            \* groupKey -> jobIds in the order dequeues returned
    \* one operation looked at on its own
    initPc,                 \* node -> how far its init() call has come
    scriptCache,            \* the store's script cache: the digests it holds
    shaOf,                  \* script -> the digest the node has cached for it
    evalCall,               \* the safeEvalsha call in progress
    borrowed,               \* pool connections handed out and not given back
    poolOp,                 \* the pool-using operation in progress
    trip,                   \* one payload on its way through add() and a dequeue
    \* failures of the runtime
    rejected,               \* node -> message-handler promises that rejected
    malformedSent,          \* QUEUE:NEWJOB messages published that are not JSON
    poolTasks               \* task -> what it holds of the pool and waits for

storeVars == <<nextJobId, jobs, groupList, groupsSet, activeGroupConsumers, inbox>>
nodeVars == <<isReady, processMap, pendingGroupConsumers, localTimers, timers,
              calls, proc, workers, nextWid>>
envVars == <<pub, doneTask, processCalls>>
histVars == <<handed, enqOrder, deqReturned>>
unitVars == <<initPc, scriptCache, shaOf, evalCall, borrowed, poolOp, trip>>
coreVars == <<storeVars, nodeVars, envVars, histVars>>
lateVars == <<rejected, malformedSent, poolTasks>>
vars == <<coreVars, unitVars, lateVars>>

\* ------------------------------------------------------------------ keys
\* `qube:${queueName}:groups`
QueueKey(queueName) == <<"qube", queueName, "groups">>
\* `qube:${queueName}:group:${groupName}`
GroupKey(queueName, groupName) == <<"qube", queueName, "group", groupName>>
\* `qube:${queueName}:${groupName}:${workerId}`
ConsumerKey(queueName, groupName, workerId) == <<"qube", queueName, groupName, workerId>>
\* `qube:${queueName}:${groupName}:`
ConsumerPrefix(queueName, groupName) == <<"qube", queueName, groupName>>
StartsWith(key, prefix) ==
    /\ Len(key) >= Len(prefix)
    /\ SubSeq(key, 1, Len(prefix)) = prefix

QueueKeys == {QueueKey(q) : q \in Queues}
GroupKeys == {GroupKey(q, g) : q \in Queues, g \in Groups}

\* process(): a member of the groups set that starts with the group-key
\* prefix is split on it, any other member is taken as the group name.
NormaliseGroup(queueName, member) ==
    IF StartsWith(member, <<"qube", queueName, "group">>)
    THEN member[4]
    ELSE member

AllConsumerKeys == {ConsumerKey(q, g, w) : q \in Queues, g \in Groups, w \in Wids}

\* ------------------------------------------------------------------ records
NoEntry == [queueName |-> "none", groupName |-> "none", groupKey |-> <<>>]
NoInfo == [owner |-> "none", shouldStop |-> FALSE, workerId |-> NoWid]
NoWorker == [pc |-> "none", node |-> "none", queueName |-> "none", groupName |-> "none",
             groupKey |-> <<>>, job |-> NoJob, info |-> NoInfo, nConsumers |-> 0,
             entry |-> NoEntry]
IdleProc == [pc |-> "idle", queueName |-> "none", nConsumers |-> 0, todo |-> <<>>]
NoTimer == [armed |-> FALSE, write |-> 0]
NoJobRecord == [status |-> "none", group |-> "none"]
NoPub == [st |-> "none", queueName |-> "none", groupName |-> "none"]

\* One invocation of startGroupConsumer(queueName, groupName, groupKey,
\* fromPending, nConsumers); ctx tells who awaits it: the message handler,
\* the loop of process(), or processPendingConsumers of worker cw.
Frame(node, queueName, groupName, groupKey, fromPending, nConsumers, ctx, cw) ==
    [node |-> node, queueName |-> queueName, groupName |-> groupName,
     groupKey |-> groupKey, fromPending |-> fromPending, nConsumers |-> nConsumers,
     pc |-> "count", workerId |-> NoWid, ctx |-> ctx, cw |-> cw]

\* if (!groupKey) groupKey = `qube:${queueName}:group:${groupName}`
startGroupConsumerKey(queueName, groupName, groupKey) ==
    IF groupKey = <<>> THEN GroupKey(queueName, groupName) ELSE groupKey

\* ------------------------------------------------------------------ scripts
\* I4: pending -> active -> {completed, failed}
Permitted(old, new) ==
    \/ old = "pending" /\ new = "active"
    \/ old = "active" /\ new \in {"completed", "failed"}

\* update_status(jobId, newStatus): writes the status if the transition is
\* permitted, otherwise a no-op.
UpdateStatusScript(js, jobId, newStatus) ==
    IF js[jobId].status # "none" /\ Permitted(js[jobId].status, newStatus)
    THEN [js EXCEPT ![jobId].status = newStatus]
    ELSE js

\* a direct HSET of the status field, without the script's transition test
updateJobStatusUnchecked(js, jobId, newStatus) ==
    IF js[jobId].status = "none" THEN js
    ELSE [js EXCEPT ![jobId].status = newStatus]
\* a call whose safeEvalsha never reaches the store
updateJobStatusDropped(js, jobId, newStatus) == js
\* updateJobStatus(jobId, newStatus): safeEvalsha('updateStatus', ...)
updateJobStatus(js, jobId, newStatus) == UpdateStatusScript(js, jobId, newStatus)

\* a pop at the tail of the list (RPOP for LPOP)
DequeueTailIndex(list) == Len(list)
\* dequeue(groupKey): the position of the list the script pops, its head
DequeueIndex(list) == 1
\* dequeue(groupKey): the popped jobId, or NoJob for nil
DequeueHead(gl, groupKey) ==
    IF gl[groupKey] = <<>> THEN NoJob ELSE gl[groupKey][DequeueIndex(gl[groupKey])]
\* dequeue(groupKey): the list after the pop
DequeueList(gl, groupKey) ==
    IF gl[groupKey] = <<>> THEN gl
    ELSE LET i == DequeueIndex(gl[groupKey]) IN
         [gl EXCEPT ![groupKey] = SubSeq(@, 1, i - 1) \o SubSeq(@, i + 1, Len(@))]
\* dequeue(groupKey): the popped job goes from pending to active
DequeueJobs(js, jobId) ==
    IF jobId # NoJob /\ js[jobId].status = "pending"
    THEN [js EXCEPT ![jobId].status = "active"]
    ELSE js

\* enqueue(queueKey, groupKey, payload, groupName): a fresh jobId, the job
\* record, the append to the group list, the group key in the queue's set
EnqueueScript(queueKey, groupKey, groupName) ==
    /\ nextJobId' = nextJobId + 1
    /\ jobs' = [jobs EXCEPT ![nextJobId] = [status |-> "pending", group |-> groupName]]
    /\ groupList' = [groupList EXCEPT ![groupKey] = Append(@, nextJobId)]
    /\ groupsSet' = [groupsSet EXCEPT ![queueKey] = @ \cup {groupKey}]

\* ------------------------------------------------------------------ registry
\* hkeys + filter(startsWith(prefix)).length
countActiveConsumersForGroup(queueName, groupName) ==
    Cardinality({k \in AllConsumerKeys :
                    /\ activeGroupConsumers[k] # Null
                    /\ StartsWith(k, ConsumerPrefix(queueName, groupName))})
\* hget + JSON.parse, Null when the field is absent
getActiveConsumer(queueName, groupName, workerId) ==
    activeGroupConsumers[ConsumerKey(queueName, groupName, workerId)]
\* hset of JSON.stringify(info)
addActiveConsumer(queueName, groupName, workerId, info) ==
    activeGroupConsumers' =
        [activeGroupConsumers EXCEPT ![ConsumerKey(queueName, groupName, workerId)] = info]
\* hdel
deleteActiveConsumer(queueName, groupName, workerId) ==
    activeGroupConsumers' =
        [activeGroupConsumers EXCEPT ![ConsumerKey(queueName, groupName, workerId)] = Null]

\* ------------------------------------------------------------------ single operations at rest
\* init(): the four scripts whose digests it caches
Scripts == {"enqueue", "dequeue", "updateStatus", "getStatus"}
\* client.script('LOAD', text) returns the digest of the text
Digest(script) == <<"sha1", script>>
NoEvalCall == [pc |-> "idle", scriptKey |-> "none", evalshas |-> 0, loads |-> 0,
               loaded |-> "none", errs |-> <<>>, outcome |-> "none"]
NoPoolOp == [pc |-> "idle", op |-> "none", before |-> 0, releases |-> 0]
NoTrip == [pc |-> "idle", data |-> "none", groupName |-> "none", payload |-> "none",
           returned |-> "none", job |-> "none"]
\* the tasks of one node that use the pool at the same time in this model
MaxTasks == 3
TaskIds == 1 .. MaxTasks
NoTask == [kind |-> "none", pc |-> "idle"]
\* no single operation is in progress; init() has run on the nodes in ready
UnitInit(ready) ==
    /\ initPc = [n \in Nodes |-> IF n \in ready THEN "resolved" ELSE "new"]
    /\ scriptCache = {Digest(s) : s \in Scripts}
    /\ shaOf = [s \in Scripts |-> Digest(s)]
    /\ evalCall = NoEvalCall
    /\ borrowed = 0
    /\ poolOp = NoPoolOp
    /\ trip = NoTrip
    /\ rejected = [n \in Nodes |-> 0]
    /\ malformedSent = 0
    /\ poolTasks = [t \in TaskIds |-> NoTask]

\* ------------------------------------------------------------------ initial state
\* init() has run on the nodes in ready; quota[n][q] is the nConsumers node n
\* has registered for queue q while q had no group (0: none); the nodes in
\* called make no further process() call
InitRegistered(ready, quota, called) ==
    /\ nextJobId = 1
    /\ jobs = [j \in JobIds |-> NoJobRecord]
    /\ groupList = [k \in GroupKeys |-> <<>>]
    /\ groupsSet = [k \in QueueKeys |-> {}]
    /\ activeGroupConsumers = [k \in AllConsumerKeys |-> Null]
    /\ inbox = [n \in Nodes |-> <<>>]
    /\ isReady = [n \in Nodes |-> n \in ready]
    /\ processMap = quota
    /\ pendingGroupConsumers = [n \in Nodes |-> <<>>]
    /\ localTimers = [n \in Nodes |-> {}]
    /\ timers = [w \in Wids |-> NoTimer]
    /\ calls = EmptyBag
    /\ proc = [n \in Nodes |-> IdleProc]
    /\ workers = [w \in Wids |-> NoWorker]
    /\ nextWid = 1
    /\ pub = [j \in JobIds |-> NoPub]
    /\ doneTask = [j \in JobIds |-> "none"]
    /\ processCalls = [n \in Nodes |-> IF n \in called THEN 1 ELSE 0]
    /\ handed = [j \in JobIds |-> 0]
    /\ enqOrder = [k \in GroupKeys |-> <<>>]
    /\ deqReturned = [k \in GroupKeys |-> <<>>]
    /\ UnitInit(ready)

\* the nodes in registered have called process(queueName, 1, callback) for
\* every queue
InitWith(ready, registered) ==
    InitRegistered(ready,
                   [n \in Nodes |-> [q \in Queues |-> IF n \in registered THEN 1 ELSE 0]],
                   registered)

\* init() has completed on one node; the other node of the universe is down
Init == InitWith({"n1"}, {})
\* init() has completed on both nodes, and the second has called
\* process(queueName, 1, callback) for every queue while the queue had no group
TwoNodeInit == InitWith(Nodes, {"n2"})

\* ------------------------------------------------------------------ producers
\* add(), first store call: safeEvalsha('enqueue', 2, queueKey, groupKey, ...)
AddEnqueue(queueName, groupName) ==
    /\ nextJobId <= MaxJobs
    /\ EnqueueScript(QueueKey(queueName), GroupKey(queueName, groupName), groupName)
    /\ pub' = [pub EXCEPT ![nextJobId] =
                  [st |-> "publishing", queueName |-> queueName, groupName |-> groupName]]
    /\ enqOrder' = [enqOrder EXCEPT ![GroupKey(queueName, groupName)] = Append(@, nextJobId)]
    /\ UNCHANGED <<activeGroupConsumers, inbox, nodeVars, doneTask, processCalls,
                   handed, deqReturned>>
    /\ UNCHANGED <<unitVars, lateVars>>

\* add(), second store call: publisher.publish('QUEUE:NEWJOB', ...) reaches
\* every subscribed node; add() then returns the jobId.
AddPublish(jobId) ==
    /\ pub[jobId].st = "publishing"
    /\ inbox' = [n \in Nodes |->
                    IF isReady[n]
                    THEN Append(inbox[n], [queueName |-> pub[jobId].queueName,
                                           groupName |-> pub[jobId].groupName])
                    ELSE inbox[n]]
    /\ pub' = [pub EXCEPT ![jobId].st = "sent"]
    /\ UNCHANGED <<nextJobId, jobs, groupList, groupsSet, activeGroupConsumers,
                   nodeVars, doneTask, processCalls, histVars>>
    /\ UNCHANGED <<unitVars, lateVars>>

\* add(), second store call throws: nothing is published, add() rejects
\* after the finally block; the enqueue stays.
AddPublishFails(jobId) ==
    /\ pub[jobId].st = "publishing"
    /\ pub' = [pub EXCEPT ![jobId].st = "failed"]
    /\ UNCHANGED <<storeVars, nodeVars, doneTask, processCalls, histVars>>
    /\ UNCHANGED <<unitVars, lateVars>>

\* updateJobStatus(jobId, newStatus) called by a maintenance client
DirectUpdate(jobId, newStatus) ==
    /\ jobs[jobId].status # "none"
    /\ jobs' = updateJobStatus(jobs, jobId, newStatus)
    /\ jobs' # jobs
    /\ UNCHANGED <<nextJobId, groupList, groupsSet, activeGroupConsumers, inbox,
                   nodeVars, envVars, histVars>>
    /\ UNCHANGED <<unitVars, lateVars>>

\* a done that takes no notice of its argument
doneIgnoresErr(js, jobId, err) == updateJobStatus(js, jobId, "completed")
\* processJob: done = async (err) => err ? failed : completed
done(js, jobId, err) ==
    IF err THEN updateJobStatus(js, jobId, "failed")
    ELSE updateJobStatus(js, jobId, "completed")

\* the status update of a done(err) call reaches the store
DoneUpdate(jobId) ==
    /\ doneTask[jobId] # "none"
    /\ jobs' = done(jobs, jobId, doneTask[jobId] = "err")
    /\ doneTask' = [doneTask EXCEPT ![jobId] = "none"]
    /\ UNCHANGED <<nextJobId, groupList, groupsSet, activeGroupConsumers, inbox,
                   nodeVars, pub, processCalls, histVars>>
    /\ UNCHANGED <<unitVars, lateVars>>

\* ------------------------------------------------------------------ process()
\* process(queueName, nConsumers, callback) up to its smembers call
Process(node, queueName, nConsumers) ==
    /\ isReady[node]
    /\ proc[node].pc = "idle"
    /\ processCalls[node] < MaxProcessCalls
    /\ processCalls' = [processCalls EXCEPT ![node] = @ + 1]
    /\ processMap' = [processMap EXCEPT ![node][queueName] = nConsumers]
    /\ proc' = [proc EXCEPT ![node] = [pc |-> "smembers", queueName |-> queueName,
                                       nConsumers |-> nConsumers, todo |-> <<>>]]
    /\ UNCHANGED <<storeVars, isReady, pendingGroupConsumers, localTimers, timers,
                   calls, workers, nextWid, pub, doneTask, histVars>>
    /\ UNCHANGED <<unitVars, lateVars>>

\* every order in which smembers may list a set
Orders(S) == {o \in [1 .. Cardinality(S) -> S] : \A m \in S : \E i \in DOMAIN o : o[i] = m}
\* for (groupName of groups) for (i < nConsumers): the calls still to make
RECURSIVE Iterations(_, _, _)
Iterations(queueName, order, nConsumers) ==
    IF order = <<>> THEN <<>>
    ELSE [i \in 1 .. nConsumers |-> NormaliseGroup(queueName, Head(order))]
         \o Iterations(queueName, Tail(order), nConsumers)

\* process(): smembers and the first startGroupConsumer call, or the return
ProcessSmembers(node) ==
    /\ proc[node].pc = "smembers"
    /\ \E order \in Orders(groupsSet[QueueKey(proc[node].queueName)]) :
         LET todo == Iterations(proc[node].queueName, order, proc[node].nConsumers) IN
         IF todo = <<>>
         THEN /\ proc' = [proc EXCEPT ![node] = IdleProc]
              /\ calls' = calls
         ELSE /\ proc' = [proc EXCEPT ![node].pc = "loop", ![node].todo = todo]
              /\ calls' = calls (+) SetToBag({Frame(node, proc[node].queueName, Head(todo),
                              startGroupConsumerKey(proc[node].queueName, Head(todo), <<>>),
                              FALSE, proc[node].nConsumers, "process", NoWid)})
    /\ UNCHANGED <<storeVars, isReady, processMap, pendingGroupConsumers, localTimers,
                   timers, workers, nextWid, envVars, histVars>>
    /\ UNCHANGED <<unitVars, lateVars>>

\* ------------------------------------------------------------------ notifications
\* a QUEUE:NEWJOB message whose text is not JSON
Malformed == [queueName |-> "<not JSON>", groupName |-> "<not JSON>"]
\* does JSON.parse(message) return?
ParsesAsJSON(message) == message # Malformed

\* subscriber.on('message'): the handler up to the first store call of
\* startGroupConsumer, or the drop of a queue without registration
listenToPubSub(node) ==
    /\ inbox[node] # <<>>
    /\ ParsesAsJSON(Head(inbox[node]))
    /\ inbox' = [inbox EXCEPT ![node] = Tail(@)]
    /\ LET msg == Head(inbox[node]) IN
       IF processMap[node][msg.queueName] > 0
       THEN calls' = calls (+) SetToBag({Frame(node, msg.queueName, msg.groupName,
                         startGroupConsumerKey(msg.queueName, msg.groupName, <<>>),
                         FALSE, processMap[node][msg.queueName], "handler", NoWid)})
       ELSE calls' = calls
    /\ UNCHANGED <<nextJobId, jobs, groupList, groupsSet, activeGroupConsumers,
                   isReady, processMap, pendingGroupConsumers, localTimers, timers,
                   proc, workers, nextWid, envVars, histVars>>
    /\ UNCHANGED <<unitVars, lateVars>>

\* ------------------------------------------------------------------ startGroupConsumer
\* The caller of a finished call runs on: the loop of process() makes its
\* next call or returns; processPendingConsumers takes the next entry.
NextCall(f) ==
    IF f.ctx = "process" /\ Len(proc[f.node].todo) > 1
    THEN SetToBag({Frame(f.node, proc[f.node].queueName, proc[f.node].todo[2],
                         startGroupConsumerKey(proc[f.node].queueName, proc[f.node].todo[2], <<>>),
                         FALSE, proc[f.node].nConsumers, "process", NoWid)})
    ELSE EmptyBag
ProcAfter(f) ==
    IF f.ctx = "process"
    THEN IF Len(proc[f.node].todo) > 1
         THEN [proc EXCEPT ![f.node].todo = Tail(@)]
         ELSE [proc EXCEPT ![f.node] = IdleProc]
    ELSE proc

\* processPendingConsumers: while (pending.length > 0) { shift(); count ... };
\* with an empty list stopGroupConsumer returns and the worker leaves its loop
processPendingWorker(wr, pending) ==
    IF pending = <<>>
    THEN [wr EXCEPT !.pc = "exited", !.entry = NoEntry, !.nConsumers = 0, !.info = NoInfo]
    ELSE [wr EXCEPT !.pc = "drainCount", !.entry = Head(pending)]
processPendingShift(pending) ==
    IF pending = <<>> THEN <<>> ELSE Tail(pending)

\* if (count >= nConsumers): the quota is full
QuotaFull(count, nConsumers) == count >= nConsumers

\* startGroupConsumer: countActiveConsumersForGroup and the decision
startGroupConsumerCount(f) ==
    /\ f.pc = "count"
    /\ LET count == countActiveConsumersForGroup(f.queueName, f.groupName) IN
       IF QuotaFull(count, f.nConsumers)
       THEN IF ~f.fromPending
            THEN /\ calls' = (calls (-) SetToBag({f})) (+) SetToBag({[f EXCEPT !.pc = "push"]})
                 /\ workers' = workers
            ELSE /\ calls' = calls (-) SetToBag({f})
                 /\ workers' = IF f.ctx = "drain"
                               THEN [workers EXCEPT ![f.cw].pc = "drainShift"]
                               ELSE workers
       ELSE /\ calls' = (calls (-) SetToBag({f})) (+) SetToBag({[f EXCEPT !.pc = "add"]})
            /\ workers' = workers
    /\ UNCHANGED <<storeVars, isReady, processMap, pendingGroupConsumers, localTimers,
                   timers, proc, nextWid, envVars, histVars>>
    /\ UNCHANGED <<unitVars, lateVars>>

\* startGroupConsumer: pendingGroupConsumers.push(...); return
startGroupConsumerPush(f) ==
    /\ f.pc = "push"
    /\ pendingGroupConsumers' = [pendingGroupConsumers EXCEPT ![f.node] =
           Append(@, [queueName |-> f.queueName, groupName |-> f.groupName,
                      groupKey |-> f.groupKey])]
    /\ calls' = (calls (-) SetToBag({f})) (+) NextCall(f)
    /\ proc' = ProcAfter(f)
    /\ UNCHANGED <<storeVars, isReady, processMap, localTimers, timers, workers,
                   nextWid, envVars, histVars>>
    /\ UNCHANGED <<unitVars, lateVars>>

\* startGroupConsumer: a fresh workerId and addActiveConsumer
startGroupConsumerAdd(f) ==
    /\ f.pc = "add"
    /\ nextWid <= MaxWorkers
    /\ addActiveConsumer(f.queueName, f.groupName, nextWid,
                         [owner |-> f.node, shouldStop |-> FALSE, workerId |-> nextWid])
    /\ nextWid' = nextWid + 1
    /\ calls' = (calls (-) SetToBag({f}))
                (+) SetToBag({[f EXCEPT !.pc = "arm", !.workerId = nextWid]})
    /\ UNCHANGED <<nextJobId, jobs, groupList, groupsSet, inbox, isReady, processMap,
                   pendingGroupConsumers, localTimers, timers, proc, workers,
                   envVars, histVars>>
    /\ UNCHANGED <<unitVars, lateVars>>

\* startGroupConsumer: setTimeout, localTimers.set, groupWorker(...) started
startGroupConsumerArm(f) ==
    /\ f.pc = "arm"
    /\ timers' = [timers EXCEPT ![f.workerId].armed = TRUE]
    /\ localTimers' = [localTimers EXCEPT ![f.node] =
                          @ \cup {ConsumerKey(f.queueName, f.groupName, f.workerId)}]
    /\ LET spawned == [NoWorker EXCEPT !.pc = "dequeue", !.node = f.node,
                                       !.queueName = f.queueName,
                                       !.groupName = f.groupName,
                                       !.groupKey = f.groupKey] IN
       IF f.ctx = "drain"
       THEN /\ workers' = [workers EXCEPT
                              ![f.workerId] = spawned,
                              ![f.cw] = processPendingWorker(workers[f.cw],
                                                             pendingGroupConsumers[f.node])]
            /\ pendingGroupConsumers' = [pendingGroupConsumers EXCEPT ![f.node] =
                                             processPendingShift(@)]
       ELSE /\ workers' = [workers EXCEPT ![f.workerId] = spawned]
            /\ pendingGroupConsumers' = pendingGroupConsumers
    /\ calls' = (calls (-) SetToBag({f})) (+) NextCall(f)
    /\ proc' = ProcAfter(f)
    /\ UNCHANGED <<storeVars, isReady, processMap, nextWid, envVars, histVars>>
    /\ UNCHANGED <<unitVars, lateVars>>

\* ------------------------------------------------------------------ inactivity timer
\* timer callback: current = getActiveConsumer(...); if (current && !current.shouldStop).
\* A handle that clearTimeout reached before the callback started never runs
\* it.  A callback that had started when the handle was cleared reads the
\* record later than the clear: it then reads what a read just before the
\* clear would have read, or finds shouldStop already true or the record
\* deleted and writes nothing, as a cleared timer does; so the start of the
\* callback and its read are one step.
TimerReads(w) ==
    /\ timers[w].armed
    /\ LET current == getActiveConsumer(workers[w].queueName, workers[w].groupName, w) IN
       timers' = [timers EXCEPT ![w].armed = FALSE,
                                ![w].write = IF current # Null /\ ~current.shouldStop
                                             THEN @ + 1 ELSE @]
    /\ UNCHANGED <<storeVars, isReady, processMap, pendingGroupConsumers, localTimers,
                   calls, proc, workers, nextWid, envVars, histVars>>
    /\ UNCHANGED <<unitVars, lateVars>>

\* timer callback: current.shouldStop = true; addActiveConsumer(..., current)
TimerWrites(w) ==
    /\ timers[w].write > 0
    /\ addActiveConsumer(workers[w].queueName, workers[w].groupName, w,
                         [owner |-> workers[w].node, shouldStop |-> TRUE, workerId |-> w])
    /\ timers' = [timers EXCEPT ![w].write = @ - 1]
    /\ UNCHANGED <<nextJobId, jobs, groupList, groupsSet, inbox, isReady, processMap,
                   pendingGroupConsumers, localTimers, calls, proc, workers, nextWid,
                   envVars, histVars>>
    /\ UNCHANGED <<unitVars, lateVars>>

\* ------------------------------------------------------------------ groupWorker
\* what the user callback does with (job, done): it calls done() or
\* done(err) (the status update is not awaited by the worker), it throws or
\* rejects, or it returns without having called done, or it calls done()
\* and then throws
Outcomes == {"completed", "failed", "throw", "none", "doneThrow"}
\* the argument of the done call the callback makes, if it makes one:
\* "ok" for a falsy err, "err" for a truthy one
DoneArg(outcome) ==
    IF outcome = "failed" THEN "err"
    ELSE IF outcome \in {"completed", "doneThrow"} THEN "ok" ELSE "none"

\* groupWorker: result = safeEvalsha('dequeue', 1, groupKey)
groupWorkerDequeue(w) ==
    /\ workers[w].pc = "dequeue"
    /\ LET jobId == DequeueHead(groupList, workers[w].groupKey) IN
       /\ groupList' = DequeueList(groupList, workers[w].groupKey)
       /\ jobs' = DequeueJobs(jobs, jobId)
       /\ IF jobId # NoJob
          THEN /\ workers' = [workers EXCEPT ![w].pc = "reset", ![w].job = jobId]
               /\ deqReturned' = [deqReturned EXCEPT
                      ![GroupKey(workers[w].queueName, workers[w].groupName)] =
                          Append(@, jobId)]
          ELSE /\ workers' = [workers EXCEPT ![w].pc = "check"]
               /\ deqReturned' = deqReturned
    /\ UNCHANGED <<nextJobId, groupsSet, activeGroupConsumers, inbox, isReady,
                   processMap, pendingGroupConsumers, localTimers, timers, calls, proc,
                   nextWid, envVars, handed, enqOrder>>
    /\ UNCHANGED <<unitVars, lateVars>>

\* resetGroupConsumerTimer: consumerInfo = getActiveConsumer(...)
resetGroupConsumerTimerRead(w) ==
    /\ workers[w].pc = "reset"
    /\ workers' = [workers EXCEPT ![w].pc = "process",
           ![w].info = getActiveConsumer(workers[w].queueName, workers[w].groupName, w)]
    /\ UNCHANGED <<storeVars, isReady, processMap, pendingGroupConsumers, localTimers,
                   timers, calls, proc, nextWid, envVars, histVars>>
    /\ UNCHANGED <<unitVars, lateVars>>

\* resetGroupConsumerTimer: if (consumerInfo && consumerInfo.owner === instanceId)
resetApplies(info, node) == info # Null /\ info.owner = node

\* a reset that clears the old handle and sets no new one
resetTimerCleared(armed, info, node) == IF resetApplies(info, node) THEN FALSE ELSE armed
\* resetGroupConsumerTimer: clearTimeout of the old handle, then setTimeout
resetTimerArmed(armed, info, node) == IF resetApplies(info, node) THEN TRUE ELSE armed

\* processJob: where the worker goes after fn(job, done)
processJobNext(outcome) == IF outcome \in {"throw", "doneThrow"} THEN "failed" ELSE "dequeue"

\* resetGroupConsumerTimer after its read (clearTimeout, setTimeout,
\* localTimers.set), then processJob: fn(job, done) is called
processJob(w, outcome) ==
    /\ workers[w].pc = "process"
    /\ LET key == ConsumerKey(workers[w].queueName, workers[w].groupName, w) IN
       /\ timers' = [timers EXCEPT ![w].armed =
                         resetTimerArmed(@, workers[w].info, workers[w].node)]
       /\ localTimers' = IF resetApplies(workers[w].info, workers[w].node)
                         THEN [localTimers EXCEPT ![workers[w].node] = @ \cup {key}]
                         ELSE localTimers
    /\ handed' = [handed EXCEPT ![workers[w].job] = @ + 1]
    /\ doneTask' = IF DoneArg(outcome) # "none"
                   THEN [doneTask EXCEPT ![workers[w].job] = DoneArg(outcome)]
                   ELSE doneTask
    /\ workers' = [workers EXCEPT ![w].pc = processJobNext(outcome),
                                  ![w].info = NoInfo,
                                  ![w].job = IF processJobNext(outcome) = "dequeue"
                                             THEN NoJob ELSE @]
    /\ UNCHANGED <<storeVars, isReady, processMap, pendingGroupConsumers, calls, proc,
                   nextWid, pub, processCalls, enqOrder, deqReturned>>
    /\ UNCHANGED <<unitVars, lateVars>>

\* a catch that puts the job back on its group list for another attempt
processJobCatchRequeue(w) ==
    /\ workers[w].pc = "failed"
    /\ jobs' = updateJobStatus(jobs, workers[w].job, "failed")
    /\ groupList' = [groupList EXCEPT ![workers[w].groupKey] = Append(@, workers[w].job)]
    /\ workers' = [workers EXCEPT ![w].pc = "dequeue", ![w].job = NoJob]
    /\ UNCHANGED <<nextJobId, groupsSet, activeGroupConsumers, inbox,
                   isReady, processMap, pendingGroupConsumers, localTimers, timers,
                   calls, proc, nextWid, envVars, histVars>>
    /\ UNCHANGED <<unitVars, lateVars>>

\* processJob: catch (error) { await this.updateJobStatus(job.id, 'failed') }
processJobCatch(w) ==
    /\ workers[w].pc = "failed"
    /\ jobs' = updateJobStatus(jobs, workers[w].job, "failed")
    /\ workers' = [workers EXCEPT ![w].pc = "dequeue", ![w].job = NoJob]
    /\ UNCHANGED <<nextJobId, groupList, groupsSet, activeGroupConsumers, inbox,
                   isReady, processMap, pendingGroupConsumers, localTimers, timers,
                   calls, proc, nextWid, envVars, histVars>>
    /\ UNCHANGED <<unitVars, lateVars>>

\* checkGroupConsumerInactivity: consumerInfo && consumerInfo.shouldStop
shouldStop(info) == info # Null /\ info.shouldStop

\* groupWorker on a nil result: stop, or sleep 1000 ms and dequeue again
checkGroupConsumerInactivity(w) ==
    /\ workers[w].pc = "check"
    /\ workers' = [workers EXCEPT ![w].pc =
           IF shouldStop(getActiveConsumer(workers[w].queueName, workers[w].groupName, w))
           THEN "stop" ELSE "dequeue"]
    /\ UNCHANGED <<storeVars, isReady, processMap, pendingGroupConsumers, localTimers,
                   timers, calls, proc, nextWid, envVars, histVars>>
    /\ UNCHANGED <<unitVars, lateVars>>

\* stopGroupConsumer: consumerInfo = getActiveConsumer(...)
stopGroupConsumerRead(w) ==
    /\ workers[w].pc = "stop"
    /\ workers' = [workers EXCEPT ![w].pc = "stopLocal",
           ![w].info = getActiveConsumer(workers[w].queueName, workers[w].groupName, w)]
    /\ UNCHANGED <<storeVars, isReady, processMap, pendingGroupConsumers, localTimers,
                   timers, calls, proc, nextWid, envVars, histVars>>
    /\ UNCHANGED <<unitVars, lateVars>>

\* stopGroupConsumer: if (consumerInfo) { clearTimeout; localTimers.delete };
\* without a record the worker leaves its loop at once
stopGroupConsumerClear(w) ==
    /\ workers[w].pc = "stopLocal"
    /\ LET key == ConsumerKey(workers[w].queueName, workers[w].groupName, w)
           node == workers[w].node IN
       IF workers[w].info = Null
       THEN /\ workers' = [workers EXCEPT ![w].pc = "exited", ![w].info = NoInfo]
            /\ timers' = timers
            /\ localTimers' = localTimers
       ELSE /\ workers' = [workers EXCEPT ![w].pc = "stopDel"]
            /\ IF workers[w].info.owner = node /\ key \in localTimers[node]
               THEN /\ timers' = [timers EXCEPT ![w].armed = FALSE]
                    /\ localTimers' = [localTimers EXCEPT ![node] = @ \ {key}]
               ELSE /\ timers' = timers
                    /\ localTimers' = localTimers
    /\ UNCHANGED <<storeVars, isReady, processMap, pendingGroupConsumers, calls, proc,
                   nextWid, envVars, histVars>>
    /\ UNCHANGED <<unitVars, lateVars>>

\* stopGroupConsumer: deleteActiveConsumer(...)
stopGroupConsumerDelete(w) ==
    /\ workers[w].pc = "stopDel"
    /\ deleteActiveConsumer(workers[w].queueName, workers[w].groupName, w)
    /\ workers' = [workers EXCEPT ![w].pc = "drainEnter", ![w].info = NoInfo]
    /\ UNCHANGED <<nextJobId, jobs, groupList, groupsSet, inbox, isReady, processMap,
                   pendingGroupConsumers, localTimers, timers, calls, proc, nextWid,
                   envVars, histVars>>
    /\ UNCHANGED <<unitVars, lateVars>>

\* stopGroupConsumer: processPendingConsumers(processMap.get(queueName).nConsumers),
\* and every later test of its while loop
processPendingConsumers(w) ==
    /\ workers[w].pc \in {"drainEnter", "drainShift"}
    /\ LET node == workers[w].node
           nConsumers == IF workers[w].pc = "drainEnter"
                         THEN processMap[node][workers[w].queueName]
                         ELSE workers[w].nConsumers IN
       /\ workers' = [workers EXCEPT ![w] =
              processPendingWorker([workers[w] EXCEPT !.nConsumers = nConsumers],
                                   pendingGroupConsumers[node])]
       /\ pendingGroupConsumers' = [pendingGroupConsumers EXCEPT ![node] =
                                        processPendingShift(@)]
    /\ UNCHANGED <<storeVars, isReady, processMap, localTimers, timers, calls, proc,
                   nextWid, envVars, histVars>>
    /\ UNCHANGED <<unitVars, lateVars>>

\* processPendingConsumers: if (count < nConsumers)
DrainAdmits(count, nConsumers) == count < nConsumers

\* processPendingConsumers: count = countActiveConsumersForGroup(...) and, below
\* the quota, startGroupConsumer(queueName, groupName, groupKey, true, nConsumers)
processPendingCount(w) ==
    /\ workers[w].pc = "drainCount"
    /\ LET e == workers[w].entry
           count == countActiveConsumersForGroup(e.queueName, e.groupName) IN
       IF DrainAdmits(count, workers[w].nConsumers)
       THEN /\ workers' = [workers EXCEPT ![w].pc = "call", ![w].entry = NoEntry]
            /\ calls' = calls (+) SetToBag({Frame(workers[w].node, e.queueName, e.groupName,
                            startGroupConsumerKey(e.queueName, e.groupName, e.groupKey),
                            TRUE, workers[w].nConsumers, "drain", w)})
       ELSE /\ workers' = [workers EXCEPT ![w].pc = "drainShift", ![w].entry = NoEntry]
            /\ calls' = calls
    /\ UNCHANGED <<storeVars, isReady, processMap, pendingGroupConsumers, localTimers,
                   timers, proc, nextWid, envVars, histVars>>
    /\ UNCHANGED <<unitVars, lateVars>>

\* ------------------------------------------------------------------ specifications
Registration ==
    \/ \E n \in Nodes, q \in UsedQueues, c \in 1 .. MaxN : Process(n, q, c)
    \/ \E n \in Nodes : ProcessSmembers(n)

Scheduler ==
    \/ \E n \in Nodes : listenToPubSub(n)
    \/ \E f \in BagToSet(calls) : startGroupConsumerCount(f)
    \/ \E f \in BagToSet(calls) : startGroupConsumerPush(f)
    \/ \E f \in BagToSet(calls) : startGroupConsumerAdd(f)
    \/ \E f \in BagToSet(calls) : startGroupConsumerArm(f)

Timer ==
    \/ \E w \in Wids : TimerReads(w)
    \/ \E w \in Wids : TimerWrites(w)

WorkerLoop ==
    \/ \E w \in Wids : groupWorkerDequeue(w)
    \/ \E w \in Wids : resetGroupConsumerTimerRead(w)
    \/ \E j \in JobIds : DoneUpdate(j)
    \/ \E w \in Wids : checkGroupConsumerInactivity(w)
    \/ \E w \in Wids : stopGroupConsumerRead(w)
    \/ \E w \in Wids : stopGroupConsumerClear(w)
    \/ \E w \in Wids : stopGroupConsumerDelete(w)
    \/ \E w \in Wids : processPendingConsumers(w)
    \/ \E w \in Wids : processPendingCount(w)

\* One node, MaxJobs jobs; every publish succeeds and every callback calls
\* done() without an error, as the callback of examples/process.js does.
Next ==
    \/ \E q \in UsedQueues, g \in Groups : AddEnqueue(q, g)
    \/ \E j \in JobIds : AddPublish(j)
    \/ Registration \/ Scheduler \/ Timer \/ WorkerLoop
    \/ \E w \in Wids : processJob(w, "completed")

Spec == Init /\ [][Next]_vars

\* One node, MaxFewJobs jobs; the publish may fail, the callback may call
\* done(), done(err), throw or return without done, and a maintenance client
\* may call updateJobStatus with any status.
FullNext ==
    \/ \E q \in UsedQueues, g \in Groups : nextJobId <= MaxFewJobs /\ AddEnqueue(q, g)
    \/ \E j \in JobIds : AddPublish(j)
    \/ \E j \in JobIds : AddPublishFails(j)
    \/ \E j \in JobIds, s \in Statuses : DirectUpdate(j, s)
    \/ Registration \/ Scheduler \/ Timer \/ WorkerLoop
    \/ \E w \in Wids, o \in Outcomes : processJob(w, o)
    \/ \E w \in Wids : processJobCatch(w)

FullSpec == Init /\ [][FullNext]_vars

\* Two nodes, one with its callback registered, MaxFewJobs jobs; every
\* publish succeeds and every callback calls done() without an error.
TwoNodeNext ==
    \/ \E q \in UsedQueues, g \in Groups : nextJobId <= MaxFewJobs /\ AddEnqueue(q, g)
    \/ \E j \in JobIds : AddPublish(j)
    \/ Registration \/ Scheduler \/ Timer \/ WorkerLoop
    \/ \E w \in Wids : processJob(w, "completed")

TwoNodeSpec == TwoNodeInit /\ [][TwoNodeNext]_vars

\* Fair scheduling of FullSpec: every store call returns, every timer that
\* is armed fires, every continuation and every callback runs.  Producers,
\* process() callers and maintenance clients are under no obligation.
WorkerStep(w) ==
    \/ groupWorkerDequeue(w)
    \/ resetGroupConsumerTimerRead(w)
    \/ \E o \in Outcomes : processJob(w, o)
    \/ processJobCatch(w)
    \/ checkGroupConsumerInactivity(w)
    \/ stopGroupConsumerRead(w)
    \/ stopGroupConsumerClear(w)
    \/ stopGroupConsumerDelete(w)
    \/ processPendingConsumers(w)
    \/ processPendingCount(w)

Fairness ==
    /\ \A w \in Wids : WF_vars(WorkerStep(w))
    /\ \A w \in Wids : WF_vars(TimerReads(w))
    /\ \A w \in Wids : WF_vars(TimerWrites(w))
    /\ \A j \in JobIds : WF_vars(DoneUpdate(j))
    /\ \A j \in JobIds : WF_vars(AddPublish(j) \/ AddPublishFails(j))
    /\ \A n \in Nodes : WF_vars(ProcessSmembers(n))
    /\ WF_vars(Scheduler)

FairFullSpec == Init /\ [][FullNext]_vars /\ Fairness

\* ------------------------------------------------------------------ vocabulary of the properties
Live(w) == workers[w].pc \notin {"none", "exited"}
\* the worker is inside its while loop and has not deleted its record
InLoop(w) == workers[w].pc \in {"dequeue", "reset", "process", "failed", "check",
                                "stop", "stopLocal", "stopDel"}
WorkerKey(w) == ConsumerKey(workers[w].queueName, workers[w].groupName, w)
WorkersOf(queueName, groupName) ==
    {w \in Wids : workers[w].queueName = queueName /\ workers[w].groupName = groupName}
IsPrefix(a, b) == Len(a) <= Len(b) /\ SubSeq(b, 1, Len(a)) = a
Occurrences(seq, x) == Cardinality({i \in DOMAIN seq : seq[i] = x})
Created(j) == jobs[j].status # "none"
JobKey(j) == GroupKey(pub[j].queueName, pub[j].groupName)
OnList(j) == \E k \in GroupKeys : Occurrences(groupList[k], j) > 0
Dequeued(j) == \E k \in GroupKeys : Occurrences(deqReturned[k], j) > 0
Terminal(j) == jobs[j].status \in {"completed", "failed"}
Registered(queueName) == \E n \in Nodes : isReady[n] /\ processMap[n][queueName] >= 1
\* nothing is in flight: no store call, timer, continuation or callback is
\* left to run, so without a new add() or process() nothing happens any more
Quiescent ==
    /\ \A n \in Nodes : inbox[n] = <<>> /\ proc[n].pc = "idle"
    /\ calls = EmptyBag
    /\ \A w \in Wids : ~Live(w) /\ ~timers[w].armed /\ timers[w].write = 0
    /\ \A j \in JobIds : pub[j].st # "publishing" /\ doneTask[j] = "none"

\* ------------------------------------------------------------------ C1
\* C1: for every group, the jobIds returned by the dequeues of the group's
\* workers are, in order, a prefix of the jobIds the enqueue script appended
\* to the group's list.
FIFOPerGroup == \A k \in GroupKeys : IsPrefix(deqReturned[k], enqOrder[k])
\* two jobs of one group have been dequeued while two workers of it run
FIFOWitness ==
    \E q \in Queues, g \in Groups :
        /\ Len(deqReturned[GroupKey(q, g)]) >= 2
        /\ Cardinality({w \in WorkersOf(q, g) : Live(w)}) >= 2

\* ------------------------------------------------------------------ C2
\* C2: at no instant are two jobs of one group being processed, that is
\* handed to the callback and not yet in a terminal status.
SerialWithinGroup ==
    \A k \in GroupKeys :
        Cardinality({j \in JobIds : /\ Created(j) /\ JobKey(j) = k
                                    /\ handed[j] >= 1 /\ ~Terminal(j)}) <= 1

\* ------------------------------------------------------------------ C3
\* C3: on every node, for every (queue, group), the workers the node has
\* spawned and that are still in their loop number at most
\* processMap[queue].nConsumers.
PerNodeWorkerCap ==
    \A n \in Nodes, q \in Queues, g \in Groups :
        Cardinality({w \in WorkersOf(q, g) : workers[w].node = n /\ InLoop(w)})
            <= processMap[n][q]

\* ------------------------------------------------------------------ C4
RECURSIVE SumOver(_, _)
SumOver(S, queueName) ==
    IF S = {} THEN 0
    ELSE LET n == CHOOSE x \in S : TRUE
         IN processMap[n][queueName] + SumOver(S \ {n}, queueName)
\* the count is at least the number of workers in their loop
CountCoversWorkers ==
    \A q \in Queues, g \in Groups :
        countActiveConsumersForGroup(q, g)
            >= Cardinality({w \in WorkersOf(q, g) : InLoop(w)})
\* C4: for every (queue, group) the number of fields of activeGroupConsumers
\* with the group's prefix is at most the sum of the registered nConsumers of
\* all nodes and at least the number of workers in flight for the group.
GlobalCapacity ==
    /\ \A q \in Queues, g \in Groups :
           countActiveConsumersForGroup(q, g) <= SumOver(Nodes, q)
    /\ CountCoversWorkers

\* ------------------------------------------------------------------ C5
StatusStep(old, new) == old = new \/ (old = "none" /\ new = "pending") \/ Permitted(old, new)
\* C5: every change of a job's status is one step of the path pending ->
\* active -> {completed, failed}: no step moves it backward, skips a stage
\* or moves it from one terminal status to the other.
StatusMonotone == [][\A j \in JobIds : StatusStep(jobs[j].status, jobs[j].status')]_vars
\* a job is terminal while the status update of its done() is still on its
\* way to the store: that update asks for a terminal-to-terminal move
StatusWitness ==
    \E j \in JobIds : Terminal(j) /\ handed[j] >= 1 /\ doneTask[j] # "none"

\* ------------------------------------------------------------------ C6
\* C6: a job whose add() has returned, for a queue a live node has registered
\* with process(), is handed to a callback; once nothing is in flight any
\* more it must have been.
AtLeastOnce ==
    Quiescent =>
        \A j \in JobIds :
            (pub[j].st = "sent" /\ Registered(pub[j].queueName)) => handed[j] >= 1

\* ------------------------------------------------------------------ C7
\* C7: a job whose publish failed is not rolled back (it is on its group
\* list until a dequeue returns it) and is handed to a callback without a
\* further notification; once nothing is in flight any more it must have been.
PublishFailureTolerated ==
    \A j \in JobIds :
        pub[j].st = "failed" =>
            /\ Created(j)
            /\ OnList(j) \/ Dequeued(j)
            /\ (Quiescent /\ Registered(pub[j].queueName)) => handed[j] >= 1

\* ------------------------------------------------------------------ C8
\* C8: a dequeue returns every jobId at most once and every job is handed
\* to at most one callback; a returned job is not on a group list again and
\* never pending again, so without a status update it stays active.
NoRedelivery ==
    \A j \in JobIds :
        /\ handed[j] <= 1
        /\ \A k \in GroupKeys : Occurrences(deqReturned[k], j) + Occurrences(groupList[k], j) <= 1
        /\ Cardinality({k \in GroupKeys : Occurrences(deqReturned[k], j) > 0}) <= 1
        /\ Dequeued(j) => ~OnList(j) /\ jobs[j].status \in {"active", "completed", "failed"}
\* the callback got the job and returned without done(), its worker has
\* left its loop, and a second worker runs: the job is active and stays so
NoRedeliveryWitness ==
    \E j \in JobIds, w \in Wids, v \in Wids :
        /\ handed[j] = 1 /\ doneTask[j] = "none" /\ jobs[j].status = "active"
        /\ workers[w].pc = "exited" /\ deqReturned[JobKey(j)] = <<j>>
        /\ workers[v].pc = "check"
        /\ deqReturned[GroupKey(workers[w].queueName, workers[w].groupName)] = <<j>>

\* ------------------------------------------------------------------ C9
\* C9: a deferred admission is spawned from the pending list once a worker
\* exit has freed capacity; once nothing is in flight any more, no admission
\* is left waiting on any node.
PendingHonoured == Quiescent => \A n \in Nodes : pendingGroupConsumers[n] = <<>>

\* ------------------------------------------------------------------ C10
\* the step in which worker w leaves its loop
Exits(w) == workers[w].pc # "exited" /\ workers[w].pc' = "exited"
\* C10: every worker eventually terminates once its group stays empty (the
\* producers add finitely many jobs); it leaves its loop only after deleting
\* its consumer record, and its localTimers entry is gone when it leaves.
InactivityShutdown ==
    /\ \A w \in Wids : Live(w) ~> (workers[w].pc = "exited")
    /\ [][\A w \in Wids : Exits(w) =>
             /\ workers[w].pc \in {"drainEnter", "drainShift", "call"}
             /\ WorkerKey(w) \notin localTimers[workers[w].node]']_vars
\* a worker has left its loop, its record is deleted, its timer entry gone
ShutdownWitness ==
    \E w \in Wids :
        /\ workers[w].pc = "exited"
        /\ activeGroupConsumers[WorkerKey(w)] = Null
        /\ WorkerKey(w) \notin localTimers[workers[w].node]

\* ------------------------------------------------------------------ C11
\* C11: when the callback has thrown or rejected, the catch of processJob
\* moves the job from active to failed and the worker makes its next dequeue
\* on the same group; the update of done(err) moves an active job to failed
\* and the update of done() moves it to completed.
CallbackFailure ==
    [][/\ \A w \in Wids :
             (workers[w].pc = "failed" /\ workers[w].pc' # "failed") =>
                 /\ workers[w].pc' = "dequeue"
                 /\ workers[w].groupKey' = workers[w].groupKey
                 /\ jobs[workers[w].job].status = "active"
                        => jobs'[workers[w].job].status = "failed"
       /\ \A j \in JobIds :
             (doneTask[j] # "none" /\ doneTask[j]' = "none" /\ jobs[j].status = "active") =>
                 jobs'[j].status = IF doneTask[j] = "err" THEN "failed" ELSE "completed"]_vars
\* the callback called done() and threw; the catch has marked the job
\* failed before the update of done() arrived, and the worker has made its
\* next dequeue
CallbackFailureWitness ==
    \E j \in JobIds, w \in Wids :
        /\ handed[j] = 1 /\ jobs[j].status = "failed" /\ doneTask[j] = "ok"
        /\ workers[w].pc = "check" /\ deqReturned[workers[w].groupKey] = <<j>>

\* ------------------------------------------------------------------ C12
\* C12: once the pass of a worker over a job is over (the callback was
\* called and processJob has returned), the job has made its one transition
\* from active to completed or failed.
OneTransitionPerPass ==
    \A j \in JobIds :
        (handed[j] >= 1 /\ \A w \in Wids : workers[w].job # j) => Terminal(j)

\* ------------------------------------------------------------------ safeEvalsha
\* the script keys safeEvalsha is called with (lines 126, 250, 324)
CalledScripts == {"enqueue", "dequeue", "updateStatus"}
\* what a store call may fail with: the store does not hold the digest, or
\* the command fails for another reason (connection closed, script error)
NoScriptError == [kind |-> "NOSCRIPT",
                  message |-> <<"NOSCRIPT", "No", "matching", "script.">>]
OtherError == [kind |-> "other", message |-> <<"Connection", "is", "closed.">>]
\* the call did not fail
Reply == [kind |-> "ok", message |-> <<>>]
Includes(message, word) == \E i \in DOMAIN message : message[i] = word
\* a catch that reloads whatever the error is
ReloadsAlways(err) == TRUE
\* safeEvalsha: if (err.message.includes('NOSCRIPT'))
ShouldReload(err) == Includes(err.message, "NOSCRIPT")
\* safeEvalsha: the script text it uploads, this[`${scriptKey}Script`]
ReloadedScript(scriptKey) == scriptKey
\* the replies the store may give to evalsha(digest): the script's result if
\* it holds the digest, NOSCRIPT if not, or a failure of the command
EvalshaReplies(digest) ==
    (IF digest \in scriptCache THEN {Reply} ELSE {NoScriptError}) \cup {OtherError}

\* safeEvalsha(scriptKey, ...): getClient, first client.evalsha sent
safeEvalsha(scriptKey) ==
    /\ evalCall.pc \in {"idle", "done"}
    /\ evalCall' = [NoEvalCall EXCEPT !.pc = "evalsha", !.scriptKey = scriptKey,
                                      !.errs = <<>>]
    /\ UNCHANGED <<coreVars, initPc, scriptCache, shaOf, borrowed, poolOp, trip, lateVars>>

\* safeEvalsha: the first evalsha returns or throws; catch (err)
safeEvalshaFirst ==
    /\ evalCall.pc = "evalsha"
    /\ \E reply \in EvalshaReplies(shaOf[evalCall.scriptKey]) :
         evalCall' =
            IF reply.kind = "ok"
            THEN [evalCall EXCEPT !.pc = "done", !.evalshas = @ + 1, !.outcome = "ok"]
            ELSE IF ShouldReload(reply)
            THEN [evalCall EXCEPT !.pc = "load", !.evalshas = @ + 1,
                                  !.errs = Append(@, reply)]
            ELSE [evalCall EXCEPT !.pc = "done", !.evalshas = @ + 1,
                                  !.errs = Append(@, reply), !.outcome = "rejected"]
    /\ UNCHANGED <<coreVars, initPc, scriptCache, shaOf, borrowed, poolOp, trip, lateVars>>

\* safeEvalsha: this[`${scriptKey}Sha`] = await client.script('LOAD', ...)
safeEvalshaLoad ==
    /\ evalCall.pc = "load"
    /\ \E reply \in {Reply, OtherError} :
         IF reply.kind = "ok"
         THEN LET script == ReloadedScript(evalCall.scriptKey) IN
              /\ scriptCache' = scriptCache \cup {Digest(script)}
              /\ shaOf' = [shaOf EXCEPT ![evalCall.scriptKey] = Digest(script)]
              /\ evalCall' = [evalCall EXCEPT !.pc = "retry", !.loads = @ + 1,
                                              !.loaded = script]
         ELSE /\ evalCall' = [evalCall EXCEPT !.pc = "done", !.errs = Append(@, reply),
                                              !.outcome = "rejected"]
              /\ UNCHANGED <<scriptCache, shaOf>>
    /\ UNCHANGED <<coreVars, initPc, borrowed, poolOp, trip, lateVars>>

\* safeEvalsha: return await client.evalsha(...) inside the catch
safeEvalshaRetry ==
    /\ evalCall.pc = "retry"
    /\ \E reply \in EvalshaReplies(shaOf[evalCall.scriptKey]) :
         evalCall' =
            IF reply.kind = "ok"
            THEN [evalCall EXCEPT !.pc = "done", !.evalshas = @ + 1, !.outcome = "ok"]
            ELSE [evalCall EXCEPT !.pc = "done", !.evalshas = @ + 1,
                                  !.errs = Append(@, reply), !.outcome = "rejected"]
    /\ UNCHANGED <<coreVars, initPc, scriptCache, shaOf, borrowed, poolOp, trip, lateVars>>

\* SCRIPT FLUSH by an administrator, or a restart of the store
ScriptFlush ==
    /\ scriptCache # {}
    /\ scriptCache' = {}
    /\ UNCHANGED <<coreVars, initPc, shaOf, evalCall, borrowed, poolOp, trip, lateVars>>

ScriptNext ==
    \/ \E k \in CalledScripts : safeEvalsha(k)
    \/ safeEvalshaFirst
    \/ safeEvalshaLoad
    \/ safeEvalshaRetry
    \/ ScriptFlush

\* One node after init(); safeEvalsha calls one after another, while the
\* store's script cache may be flushed and any store call may fail.
ScriptSpec == Init /\ [][ScriptNext]_vars

\* ------------------------------------------------------------------ C13
\* C13: a safeEvalsha call uploads a script at most once, only after its
\* first evalsha failed with NOSCRIPT, and then the script it was called
\* for, whose digest it caches; it sends evalsha at most twice, the second
\* time only after the upload; it is rejected only by an error other than
\* the first NOSCRIPT, and after a mere flush of the cache it succeeds.
ScriptRecovery ==
    LET c == evalCall IN
    /\ c.loads <= 1 /\ c.evalshas <= 2
    /\ (c.loads = 1 \/ c.pc \in {"load", "retry"}) =>
           /\ c.evalshas >= 1
           /\ c.errs # <<>> /\ c.errs[1].kind = "NOSCRIPT"
    /\ c.loads = 1 =>
           /\ c.loaded = c.scriptKey
           /\ shaOf[c.scriptKey] = Digest(c.scriptKey)
    /\ c.evalshas = 2 => c.loads = 1
    /\ c.outcome = "rejected" =>
           /\ c.errs # <<>>
           /\ c.errs[1].kind = "NOSCRIPT" => Len(c.errs) = 2
           /\ c.errs[1].kind # "NOSCRIPT" => c.loads = 0 /\ c.evalshas = 1
    /\ c.outcome = "ok" => Len(c.errs) <= 1
\* the cache was flushed, the first evalsha failed with NOSCRIPT, the script
\* was uploaded again and the second evalsha succeeded
ScriptRecoveryWitness ==
    /\ evalCall.pc = "done" /\ evalCall.outcome = "ok"
    /\ evalCall.loads = 1 /\ evalCall.evalshas = 2
    /\ evalCall.errs = <<NoScriptError>>

\* ------------------------------------------------------------------ init
\* init(): the script files are read and the four SCRIPT LOAD calls are sent
init(node) ==
    /\ initPc[node] = "new"
    /\ initPc' = [initPc EXCEPT ![node] = "loading"]
    /\ UNCHANGED <<coreVars, scriptCache, shaOf, evalCall, borrowed, poolOp, trip, lateVars>>

\* init(): await this.scriptsLoaded is over; this.listenToPubSub() is called,
\* which sends SUBSCRIBE and is not awaited; init() resolves
initResolves(node) ==
    /\ initPc[node] = "loading"
    /\ initPc' = [initPc EXCEPT ![node] = "resolved"]
    /\ UNCHANGED <<coreVars, scriptCache, shaOf, evalCall, borrowed, poolOp, trip, lateVars>>

\* listenToPubSub: the store confirms the subscription; the callback of
\* subscribe sets isReady, and the message handler is attached
SubscribeConfirmed(node) ==
    /\ initPc[node] = "resolved"
    /\ ~isReady[node]
    /\ isReady' = [isReady EXCEPT ![node] = TRUE]
    /\ UNCHANGED <<storeVars, processMap, pendingGroupConsumers, localTimers, timers,
                   calls, proc, workers, nextWid, envVars, histVars, unitVars, lateVars>>

\* no node has called init() yet
StartInit == InitWith({}, {})

InitNext ==
    \/ \E n \in Nodes : init(n)
    \/ \E n \in Nodes : initResolves(n)
    \/ \E n \in Nodes : SubscribeConfirmed(n)
    \/ \E q \in UsedQueues, g \in Groups : AddEnqueue(q, g)
    \/ \E j \in JobIds : AddPublish(j)
    \/ \E n \in Nodes : listenToPubSub(n)

\* Two nodes start up while producers add MaxJobs jobs.
InitSpec == StartInit /\ [][InitNext]_vars

\* ------------------------------------------------------------------ C14
\* C14: on every node whose init() has resolved, the subscription is
\* confirmed and isReady is true.
ReadyWhenInitResolved == \A n \in Nodes : initPc[n] = "resolved" => isReady[n]

\* ------------------------------------------------------------------ payloads
\* A JavaScript value handed to add() as data: a primitive, or a flat object
\* whose members are primitives.  v is the primitive written as a literal.
Prim(type, v) == [type |-> type, v |-> v, members |-> <<>>]
Undefined == Prim("undefined", "undefined")
JsNull == Prim("null", "null")
NaN == Prim("number", "NaN")
Primitives ==
    {JsNull, NaN, Prim("number", "0"), Prim("number", "1"), Prim("string", ""),
     Prim("string", "Hola mundo"), Prim("boolean", "true"), Prim("boolean", "false")}
\* the member names of the producer example's payload
MemberNames == <<"to", "message">>
Member(name, value) == [name |-> name, value |-> value]
Obj(members) == [type |-> "object", v |-> "", members |-> members]
Objects ==
    {Obj(<<>>)}
    \cup {Obj(<<Member(MemberNames[1], a)>>) : a \in Primitives \cup {Undefined}}
    \cup {Obj(<<Member(MemberNames[1], a), Member(MemberNames[2], b)>>) :
            a \in {Prim("string", "573205104418")},
            b \in Primitives \cup {Undefined}}
Payloads == Primitives \cup Objects
\* group names a producer passes to add(); the empty string is a string
GroupNames == {"573205104418", "G", ""}

\* JSON.stringify of a primitive, as a sequence of tokens; NaN is written null
StringifyPrim(d) ==
    CASE d.type = "string" -> <<"\"", d.v, "\"">>
      [] d.type = "number" -> IF d.v = "NaN" THEN <<"null">> ELSE <<d.v>>
      [] OTHER -> <<d.v>>
\* JSON.stringify of the members of an object from the i-th on: a member whose
\* value is undefined is left out
RECURSIVE StringifyMembers(_, _, _)
StringifyMembers(members, i, first) ==
    IF i > Len(members) THEN <<>>
    ELSE IF members[i].value.type = "undefined"
         THEN StringifyMembers(members, i + 1, first)
         ELSE (IF first THEN <<>> ELSE <<",">>)
              \o <<"\"", members[i].name, "\"", ":">>
              \o StringifyPrim(members[i].value)
              \o StringifyMembers(members, i + 1, FALSE)
\* JSON.stringify(data): the text add() passes to the enqueue script
JSONstringify(d) ==
    IF d.type = "object"
    THEN <<"{">> \o StringifyMembers(d.members, 1, TRUE) \o <<"}">>
    ELSE StringifyPrim(d)

\* the number of tokens of the primitive that starts at text[i]
PrimLen(text, i) == IF text[i] = "\"" THEN 3 ELSE 1
\* JSON.parse of the primitive that starts at text[i]
ParsePrim(text, i) ==
    CASE text[i] = "\"" -> Prim("string", text[i + 1])
      [] text[i] = "null" -> JsNull
      [] text[i] \in {"true", "false"} -> Prim("boolean", text[i])
      [] OTHER -> Prim("number", text[i])
\* JSON.parse of the members of an object, the first of which starts at text[i]
RECURSIVE ParseMembers(_, _)
ParseMembers(text, i) ==
    IF text[i] = "}" THEN <<>>
    ELSE IF text[i] = "," THEN ParseMembers(text, i + 1)
    ELSE <<Member(text[i + 1], ParsePrim(text, i + 4))>>
         \o ParseMembers(text, i + 4 + PrimLen(text, i + 4))
\* JSON.parse(jobDataRaw)
JSONparse(text) ==
    IF text[1] = "{" THEN Obj(ParseMembers(text, 2)) ELSE ParsePrim(text, 1)

\* jobDataRaw ? JSON.parse(jobDataRaw) : null
jobDataParsed(jobDataRaw) ==
    IF jobDataRaw # <<>> THEN JSONparse(jobDataRaw) ELSE JsNull
\* groupNameFromJob ? groupNameFromJob.toString() : undefined
jobGroupName(groupNameFromJob) ==
    IF groupNameFromJob # "" THEN groupNameFromJob ELSE "undefined"

\* add(queueName, groupName, data): the enqueue script stores
\* JSON.stringify(data) and groupName in a new job record and returns its id
addData(d, g) ==
    /\ trip.pc = "idle"
    /\ trip' = [trip EXCEPT !.pc = "enqueued", !.data = d, !.groupName = g,
                            !.payload = [data |-> JSONstringify(d), group |-> g],
                            !.returned = 1]
    /\ UNCHANGED <<coreVars, initPc, scriptCache, shaOf, evalCall, borrowed, poolOp, lateVars>>

\* groupWorker: the dequeue script returns [jobId, payloadJSON, groupName] of
\* that job; the job object handed to the callback is built from them
groupWorkerJob ==
    /\ trip.pc = "enqueued"
    /\ trip' = [trip EXCEPT !.pc = "handed",
                            !.job = [id |-> trip.returned,
                                     data |-> jobDataParsed(trip.payload.data),
                                     groupName |-> jobGroupName(trip.payload.group)]]
    /\ UNCHANGED <<coreVars, initPc, scriptCache, shaOf, evalCall, borrowed, poolOp, lateVars>>

\* the callback has returned; the next payload is tried
TripOver ==
    /\ trip.pc = "handed"
    /\ trip' = NoTrip
    /\ UNCHANGED <<coreVars, initPc, scriptCache, shaOf, evalCall, borrowed, poolOp, lateVars>>

TripNext ==
    \/ \E d \in Payloads, g \in GroupNames : addData(d, g)
    \/ groupWorkerJob
    \/ TripOver

\* One payload at a time goes through add() and the dequeue of its job.
TripSpec == Init /\ [][TripNext]_vars

\* ------------------------------------------------------------------ C15
\* C15: the job handed to the callback carries the data and the group name
\* given to add(), and the id add() returned.
RoundTrip ==
    trip.pc = "handed" =>
        /\ trip.job.data = trip.data
        /\ trip.job.groupName = trip.groupName
        /\ trip.job.id = trip.returned

\* ------------------------------------------------------------------ C16
\* C16: for a job in status active, updateJobStatus(J, "completed") applied
\* twice leaves the job records as one application does: J completed, every
\* other field and every other job unchanged.
CompletionIdempotent ==
    \A j \in JobIds :
        jobs[j].status = "active" =>
            LET once == updateJobStatus(jobs, j, "completed")
                twice == updateJobStatus(once, j, "completed")
            IN  /\ twice = once
                /\ once = [jobs EXCEPT ![j].status = "completed"]
\* an active job whose callback has called done(null): the completion is on
\* its way to the store
CompletionWitness ==
    \E j \in JobIds : jobs[j].status = "active" /\ doneTask[j] = "ok"

\* ------------------------------------------------------------------ the pool
\* the connections one node may have borrowed at a time in this model
MaxBorrowed == 4
\* the ConsumerRegistry operations: getClient, one command, releaseClient,
\* with no try around the command
RegistryOps ==
    {"addActiveConsumer", "getActiveConsumer", "deleteActiveConsumer",
     "countActiveConsumersForGroup"}
\* the operations that call releaseClient in a finally block
FinallyOps == {"safeEvalsha", "updateProgress", "add", "process", "groupWorker"}
PoolOps == RegistryOps \cup FinallyOps
\* does releaseClient run when the command of op has thrown?
ReleasesOnThrow(op) == op \in FinallyOps

\* const client = await this.getClient()
getClient(op) ==
    /\ poolOp.pc = "idle"
    /\ borrowed < MaxBorrowed
    /\ borrowed' = borrowed + 1
    /\ poolOp' = [pc |-> "holding", op |-> op, before |-> borrowed, releases |-> 0]
    /\ UNCHANGED <<coreVars, initPc, scriptCache, shaOf, evalCall, trip, lateVars>>

\* the store commands of the operation succeed; releaseClient(client) runs
\* and the operation returns
releaseClient ==
    /\ poolOp.pc = "holding"
    /\ borrowed' = borrowed - 1
    /\ poolOp' = [poolOp EXCEPT !.pc = "returned", !.releases = @ + 1]
    /\ UNCHANGED <<coreVars, initPc, scriptCache, shaOf, evalCall, trip, lateVars>>

\* a store command of the operation fails: the rejection leaves the
\* operation through its finally block if it has one
CommandFails ==
    /\ poolOp.pc = "holding"
    /\ IF ReleasesOnThrow(poolOp.op)
       THEN /\ borrowed' = borrowed - 1
            /\ poolOp' = [poolOp EXCEPT !.pc = "threw", !.releases = @ + 1]
       ELSE /\ borrowed' = borrowed
            /\ poolOp' = [poolOp EXCEPT !.pc = "threw"]
    /\ UNCHANGED <<coreVars, initPc, scriptCache, shaOf, evalCall, trip, lateVars>>

\* the caller goes on to its next operation
PoolOpOver ==
    /\ poolOp.pc \in {"returned", "threw"}
    /\ poolOp' = NoPoolOp
    /\ UNCHANGED <<coreVars, initPc, scriptCache, shaOf, evalCall, borrowed, trip, lateVars>>

PoolNext ==
    \/ \E op \in PoolOps : getClient(op)
    \/ releaseClient
    \/ CommandFails
    \/ PoolOpOver

\* One node runs its pool-using operations one after another; any store
\* command may fail.
PoolSpec == Init /\ [][PoolNext]_vars

\* ------------------------------------------------------------------ C17
\* C17: when an operation that acquired a pool connection has ended, by
\* returning or by throwing, it has released once and as many connections
\* are borrowed as before it started.
AcquireReleasePaired ==
    poolOp.pc \in {"returned", "threw"} =>
        /\ poolOp.releases = 1
        /\ borrowed = poolOp.before

\* ------------------------------------------------------------------ C18
\* C18 (I5): on every node, localTimers holds consumerKey exactly when
\* activeGroupConsumers holds a record for it whose owner is this node and
\* whose shouldStop is false.
WorkerOwnership ==
    \A n \in Nodes, q \in Queues, g \in Groups, w \in Wids :
        LET record == getActiveConsumer(q, g, w) IN
        ConsumerKey(q, g, w) \in localTimers[n]
            <=> (record # Null /\ record.owner = n /\ ~record.shouldStop)

\* ------------------------------------------------------------------ store failures
\* groupWorker: a store operation awaited inside the while loop rejects
\* (the dequeue through safeEvalsha, which rethrows; getActiveConsumer of
\* resetGroupConsumerTimer or checkGroupConsumerInactivity; updateJobStatus
\* in the catch of processJob).  The try of groupWorker has a finally and no
\* catch: the rejection leaves the loop, the connection is released and the
\* promise of groupWorker, which nobody awaits, rejects.
groupWorkerThrows(w) ==
    /\ workers[w].pc \in {"dequeue", "reset", "check", "failed"}
    /\ workers' = [workers EXCEPT ![w].pc = "crashed"]
    /\ UNCHANGED <<storeVars, isReady, processMap, pendingGroupConsumers, localTimers,
                   timers, calls, proc, nextWid, envVars, histVars>>
    /\ UNCHANGED <<unitVars, lateVars>>

FaultNext ==
    \/ FullNext
    \/ \E w \in Wids : groupWorkerThrows(w)

\* FullSpec with store operations of the worker loop that may fail.
FaultSpec == Init /\ [][FaultNext]_vars

\* ------------------------------------------------------------------ C19
\* C19: a worker leaves its loop only from stopGroupConsumer, which it enters
\* after a nil dequeue and a record read with shouldStop true; a failed store
\* operation does not end it, so no record is left behind by a worker that
\* stopped running.
TerminatesOnlyViaShouldStop ==
    [][\A w \in Wids :
          (InLoop(w) /\ ~InLoop(w)') =>
              /\ workers[w].pc \in {"stopLocal", "stopDel"}
              /\ activeGroupConsumers'[WorkerKey(w)] = Null]_vars

\* ------------------------------------------------------------------ two queues
\* the nConsumers registered for queue Q in the two-queue specification
QuotaOfQ == 2
\* init() has completed on one node, which has called process("Q", QuotaOfQ,
\* callback) while the store was empty
TwoQueueInit ==
    InitRegistered({"n1"},
                   [n \in Nodes |-> [q \in Queues |->
                       IF n = "n1" /\ q = "Q" THEN QuotaOfQ ELSE 0]],
                   {})

TwoQueueNext ==
    \/ \E q \in Queues, g \in Groups : AddEnqueue(q, g)
    \/ \E j \in JobIds : AddPublish(j)
    \/ \E n \in Nodes, c \in 1 .. MaxN : Process(n, "Q2", c)
    \/ \E n \in Nodes : ProcessSmembers(n)
    \/ Scheduler \/ Timer \/ WorkerLoop
    \/ \E w \in Wids : processJob(w, "completed")

\* One node serves queue Q with QuotaOfQ consumers and registers queue Q2
\* with at most MaxN; MaxJobs jobs are added to either queue.
TwoQueueSpec == TwoQueueInit /\ [][TwoQueueNext]_vars

\* ------------------------------------------------------------------ C20
\* C20: a startGroupConsumer call made by the drain of the pending list goes
\* on to spawn a worker for (queue, group) only if the count of that group is
\* below the nConsumers registered for that queue.
DrainRespectsQuota ==
    [][\A f \in BagToSet(calls) :
          (/\ f.ctx = "drain"
           /\ f.pc = "count"
           /\ BagIn([f EXCEPT !.pc = "add"], calls')) =>
              countActiveConsumersForGroup(f.queueName, f.groupName)
                  < processMap[f.node][f.queueName]]_vars

\* ------------------------------------------------------------------ malformed notifications
\* messages that are not JSON published on the channel in this model
MaxMalformed == 1
\* some client publishes a text that is not JSON on QUEUE:NEWJOB; it reaches
\* every subscribed node
PublishMalformed ==
    /\ malformedSent < MaxMalformed
    /\ malformedSent' = malformedSent + 1
    /\ inbox' = [n \in Nodes |-> IF isReady[n] THEN Append(inbox[n], Malformed) ELSE inbox[n]]
    /\ UNCHANGED <<nextJobId, jobs, groupList, groupsSet, activeGroupConsumers,
                   nodeVars, envVars, histVars, unitVars, rejected, poolTasks>>

\* subscriber.on('message', async (channel, message) => { ... }): JSON.parse
\* throws inside the async handler, which has no try; the promise the handler
\* returned rejects, and the emitter that called it does not look at it
listenToPubSubThrows(node) ==
    /\ inbox[node] # <<>>
    /\ ~ParsesAsJSON(Head(inbox[node]))
    /\ inbox' = [inbox EXCEPT ![node] = Tail(@)]
    /\ rejected' = [rejected EXCEPT ![node] = @ + 1]
    /\ UNCHANGED <<nextJobId, jobs, groupList, groupsSet, activeGroupConsumers,
                   nodeVars, envVars, histVars, unitVars, malformedSent, poolTasks>>

\* the frames of startGroupConsumer that run on other nodes
CallsElsewhere(node) ==
    [f \in {g \in BagToSet(calls) : g.node # node} |-> calls[f]]

\* a runtime whose policy for unhandled rejections is to end the process:
\* the subscription and everything the node held in memory are gone, what it
\* wrote to the store stays
processExits(node) ==
    /\ rejected[node] > 0
    /\ initPc[node] = "resolved"
    /\ initPc' = [initPc EXCEPT ![node] = "exited"]
    /\ isReady' = [isReady EXCEPT ![node] = FALSE]
    /\ inbox' = [inbox EXCEPT ![node] = <<>>]
    /\ processMap' = [processMap EXCEPT ![node] = [q \in Queues |-> 0]]
    /\ pendingGroupConsumers' = [pendingGroupConsumers EXCEPT ![node] = <<>>]
    /\ localTimers' = [localTimers EXCEPT ![node] = {}]
    /\ calls' = CallsElsewhere(node)
    /\ proc' = [proc EXCEPT ![node] = IdleProc]
    /\ workers' = [w \in Wids |-> IF workers[w].node = node THEN NoWorker ELSE workers[w]]
    /\ timers' = [w \in Wids |-> IF workers[w].node = node THEN NoTimer ELSE timers[w]]
    /\ UNCHANGED <<nextJobId, jobs, groupList, groupsSet, activeGroupConsumers, nextWid,
                   envVars, histVars, scriptCache, shaOf, evalCall, borrowed, poolOp,
                   trip, lateVars>>

MessageNext ==
    \/ \E q \in UsedQueues, g \in Groups : AddEnqueue(q, g)
    \/ \E j \in JobIds : AddPublish(j)
    \/ PublishMalformed
    \/ \E n \in Nodes : listenToPubSubThrows(n)
    \/ \E n \in Nodes : processExits(n)
    \/ Scheduler

\* Two subscribed nodes, one with its callback registered, receive the
\* notifications of MaxJobs jobs and MaxMalformed messages that are not JSON.
MessageSpec == TwoNodeInit /\ [][MessageNext]_vars

\* ------------------------------------------------------------------ C21
\* C21: the handling of a message that is not JSON changes none of
\* processMap, pendingGroupConsumers, localTimers and activeGroupConsumers and
\* rejects no promise; and a well-formed message for a registered queue that
\* leaves the inbox has become a startGroupConsumer call.
MalformedDropped ==
    [][\A n \in Nodes :
          (inbox[n] # <<>> /\ inbox'[n] = Tail(inbox[n])) =>
              IF ParsesAsJSON(Head(inbox[n]))
              THEN processMap[n][Head(inbox[n]).queueName] > 0 =>
                       BagCardinality(calls') = BagCardinality(calls) + 1
              ELSE /\ processMap' = processMap
                   /\ pendingGroupConsumers' = pendingGroupConsumers
                   /\ localTimers' = localTimers
                   /\ activeGroupConsumers' = activeGroupConsumers
                   /\ rejected' = rejected]_vars

\* ------------------------------------------------------------------ nested acquires
\* the pool's max in this model (the constructor passes max: 1000)
PoolMax == 2
\* the operations that hold a connection of their own while the store calls
\* they make (safeEvalsha, the registry operations) acquire a second one
TaskKinds == {"groupWorker", "add", "process"}

\* pool.acquire(): a connection is handed out while fewer than max are
\* borrowed; otherwise the request waits, with no timeout
CanAcquire == borrowed < PoolMax

\* groupWorker / add / process: const client = await this.getClient()
taskGetClient(t, kind) ==
    /\ poolTasks[t].pc = "idle"
    /\ poolTasks' = [poolTasks EXCEPT ![t] = [kind |-> kind, pc |-> "wantOuter"]]
    /\ UNCHANGED <<coreVars, unitVars, rejected, malformedSent>>

\* the pool grants a waiting request: the task's own connection, or the one
\* its nested store call asked for
poolGrants(t) ==
    /\ poolTasks[t].pc \in {"wantOuter", "wantNested"}
    /\ CanAcquire
    /\ borrowed' = borrowed + 1
    /\ poolTasks' = [poolTasks EXCEPT ![t].pc =
                        IF poolTasks[t].pc = "wantOuter" THEN "outer" ELSE "nested"]
    /\ UNCHANGED <<coreVars, initPc, scriptCache, shaOf, evalCall, poolOp, trip,
                   rejected, malformedSent>>

\* inside the try block: safeEvalsha or a registry operation calls getClient
nestedGetClient(t) ==
    /\ poolTasks[t].pc = "outer"
    /\ poolTasks' = [poolTasks EXCEPT ![t].pc = "wantNested"]
    /\ UNCHANGED <<coreVars, unitVars, rejected, malformedSent>>

\* the nested call is over and releases its connection
nestedReleaseClient(t) ==
    /\ poolTasks[t].pc = "nested"
    /\ borrowed' = borrowed - 1
    /\ poolTasks' = [poolTasks EXCEPT ![t].pc = "outer"]
    /\ UNCHANGED <<coreVars, initPc, scriptCache, shaOf, evalCall, poolOp, trip,
                   rejected, malformedSent>>

\* finally { await this.releaseClient(client) }: the task ends
taskReleaseClient(t) ==
    /\ poolTasks[t].pc = "outer"
    /\ borrowed' = borrowed - 1
    /\ poolTasks' = [poolTasks EXCEPT ![t] = NoTask]
    /\ UNCHANGED <<coreVars, initPc, scriptCache, shaOf, evalCall, poolOp, trip,
                   rejected, malformedSent>>

NestedNext ==
    \/ \E t \in TaskIds, kind \in TaskKinds : taskGetClient(t, kind)
    \/ \E t \in TaskIds : poolGrants(t)
    \/ \E t \in TaskIds : nestedGetClient(t)
    \/ \E t \in TaskIds : nestedReleaseClient(t)
    \/ \E t \in TaskIds : taskReleaseClient(t)

\* MaxTasks workers, add() calls and process() calls of one node share a pool
\* of PoolMax connections.
NestedSpec == Init /\ [][NestedNext]_vars

\* ------------------------------------------------------------------ C22
\* C22: the pool is never exhausted by tasks that each wait for a further
\* connection.
NoPoolDeadlock ==
    ~ /\ borrowed = PoolMax
      /\ \A t \in TaskIds :
            poolTasks[t].pc \in {"outer", "wantNested", "nested"} =>
                poolTasks[t].pc = "wantNested"

\* ------------------------------------------------------------------ C23
\* C23: a record appears in activeGroupConsumers only when startGroupConsumer
\* registers a worker under a fresh workerId; a key whose record
\* stopGroupConsumer has deleted gets no record again.
NoResurrectedRecord ==
    [][\A key \in AllConsumerKeys :
          (activeGroupConsumers[key] = Null /\ activeGroupConsumers'[key] # Null) =>
              (key[4] = nextWid /\ nextWid' = nextWid + 1)]_vars

====
